---- MODULE Spec2Model ----
(***************************************************************************)
(* monero-db-rs: the typed accessor layer (src/src/monero_db.rs) and the   *)
(* table registry (src/src/sub_db.rs) over an LMDB environment.            *)
(*                                                                         *)
(* The store on disk is the committed state of the environment.  A call    *)
(* of the API is a sequence of engine primitives (begin transaction, open  *)
(* cursor, get / put / stat), one step each; a transaction or a cursor     *)
(* that goes out of scope is dropped, and dropping a transaction aborts    *)
(* it.                                                                     *)
(*                                                                         *)
(* Byte strings are sequences of naturals, one element per fixed-width     *)
(* field of the record's binary layout.                                    *)
(***************************************************************************)
EXTENDS Integers, Sequences, FiniteSets, TLC

\* ------------------------------------------------------------------ bounds
MaxChain == 2      \* blocks on the main chain of the store: 0..MaxChain
MaxKey == 2        \* key images 1..MaxKey
MaxTx == 1         \* pool transactions and alternative blocks: 1..MaxTx
MaxCommits == 4    \* commits of the reference node during one call

\* ------------------------------------------------------- program constants
HASH_LEN == 32          \* length of a Hash / key image in bytes
MDB_NOTFOUND == -30798  \* the error code is_key_image_spent tests for
MDB_FIRST == 0          \* cursor operation codes passed to get_item
MDB_GET_BOTH == 2
MDB_SET == 15
U64_MAX == -1           \* 0xFFFF_FFFF_FFFF_FFFF: the u64 that 0 - 1 wraps to

ZERO_KEY == <<0>>       \* [0u8; 8], the primary key of the multi-value tables

\* -------------------------------------------------------------- the tables
Tables ==
    {"blocks", "block_heights", "block_info", "txs_pruned", "txs_prunable",
     "txs_prunable_hash", "txs_prunable_tip", "tx_indices", "tx_outputs",
     "output_txs", "output_amounts", "spent_keys", "txpool_meta",
     "txpool_blob", "alt_blocks", "hf_versions", "properties"}

NoCmp == [key |-> "default", dup |-> "default"]

\* transaction.set_compare_*(db) / transaction.set_dupsort_*(db)
set_compare(c, db, f) == [c EXCEPT ![db] = [@ EXCEPT !.key = f]]
set_dupsort(c, db, f) == [c EXCEPT ![db] = [@ EXCEPT !.dup = f]]

\* MoneroSubDB::open_sub_dbs: the seventeen handles of the struct
open_sub_dbs == Tables

\* fault: set_sort that forgets the comparator of alt_blocks
set_sort_no_alt(c) ==
    LET c1 == set_dupsort(c, "spent_keys", "hash32")
        c2 == set_dupsort(c1, "block_heights", "hash32")
        c3 == set_dupsort(c2, "tx_indices", "hash32")
        c4 == set_dupsort(c3, "output_amounts", "uint64")
        c5 == set_dupsort(c4, "output_txs", "uint64")
        c6 == set_dupsort(c5, "block_info", "uint64")
        c7 == set_dupsort(c6, "txs_prunable_tip", "uint64")
        c8 == set_compare(c7, "txs_prunable", "uint64")
        c9 == set_dupsort(c8, "txs_prunable_hash", "uint64")
        c10 == set_compare(c9, "txpool_meta", "hash32")
        c11 == set_compare(c10, "txpool_blob", "hash32")
    IN  set_compare(c11, "properties", "string")

\* MoneroSubDB::set_sort: the comparators installed, in the code's order
set_sort(c) ==
    LET c1 == set_dupsort(c, "spent_keys", "hash32")
        c2 == set_dupsort(c1, "block_heights", "hash32")
        c3 == set_dupsort(c2, "tx_indices", "hash32")
        c4 == set_dupsort(c3, "output_amounts", "uint64")
        c5 == set_dupsort(c4, "output_txs", "uint64")
        c6 == set_dupsort(c5, "block_info", "uint64")
        c7 == set_dupsort(c6, "txs_prunable_tip", "uint64")
        c8 == set_compare(c7, "txs_prunable", "uint64")
        c9 == set_dupsort(c8, "txs_prunable_hash", "uint64")
        c10 == set_compare(c9, "txpool_meta", "hash32")
        c11 == set_compare(c10, "txpool_blob", "hash32")
        c12 == set_compare(c11, "alt_blocks", "hash32")
    IN  set_compare(c12, "properties", "string")

\* ---------------------------------------------------------- record codecs
\* monero::consensus::{serialize, deserialize}: the fields of a record one
\* after the other; decoding fails on bytes of another layout.
DecodeErr == [tag |-> "Err", err |-> "MoneroDecodingError"]
Ok(v) == [tag |-> "Ok", val |-> v]
DbErr(e) == [tag |-> "Err", err |-> "DatabaseError", code |-> e]

AltBlocks == [block : 1..MaxTx, height : 0..1]
Transactions == [prefix : 1..MaxTx]
TxPoolMetas == [fee : 0..1, kept_by_block : BOOLEAN]

\* Hashable::hash / Block::id: the 32-byte digest
hash(tx) == tx.prefix
id(b) == b.block

serialize(kind, r) ==
    CASE kind = "AltBlock" -> <<r.block, r.height>>
      [] kind = "Transaction" -> <<r.prefix>>
      [] kind = "TxPoolMeta" -> <<r.fee, IF r.kept_by_block THEN 1 ELSE 0>>
      [] kind = "BlockInfo" -> <<r.height, r.diff>>
      [] kind = "BlockHeight" -> <<r.hash, r.height>>

\* a key image decodes as a PublicKey only when it is a point of the curve
IsPoint(k) == k % 2 = 1

deserialize(kind, bs) ==
    CASE kind = "AltBlock" ->
            IF Len(bs) = 2 THEN Ok([block |-> bs[1], height |-> bs[2]])
            ELSE DecodeErr
      [] kind = "Transaction" ->
            IF Len(bs) = 1 THEN Ok([prefix |-> bs[1]]) ELSE DecodeErr
      [] kind = "TxPoolMeta" ->
            IF Len(bs) = 2 /\ bs[2] \in {0, 1}
            THEN Ok([fee |-> bs[1], kept_by_block |-> (bs[2] = 1)])
            ELSE DecodeErr
      [] kind = "BlockInfo" ->
            IF Len(bs) = 2 THEN Ok([height |-> bs[1], diff |-> bs[2]])
            ELSE DecodeErr
      [] kind = "BlockHeight" ->
            IF Len(bs) = 2 THEN Ok([hash |-> bs[1], height |-> bs[2]])
            ELSE DecodeErr
      [] kind = "PublicKey" ->
            IF Len(bs) = 1 /\ IsPoint(bs[1]) THEN Ok(bs[1]) ELSE DecodeErr

\* BlockInfo::cumulative_difficulty
cumulative_difficulty(bi) == bi.diff


\* ------------------------------------------------------------------- state
VARIABLES
    disk,             \* committed contents of the environment: table -> entries
    phase,            \* "closed", "open" (MoneroDB exists) or "failed"
    read_only,        \* MoneroDB.read_only
    sub_dbs,          \* MoneroDB.sub_dbs: the table handles held
    cmp,              \* comparators installed in the environment, per table
    call,             \* the API call in progress or last returned
    pc,               \* position inside the call
    txn,              \* the transaction the call holds
    cursor,           \* the cursor the call holds
    rw_count,         \* write transactions begun by the call
    local,            \* prev_block / the raw value fetched
    ret,              \* what the call returned
    committed         \* history: the committed contents the store has had
                      \* since the call entered

vars == <<disk, phase, read_only, sub_dbs, cmp, call, pc, txn, cursor, rw_count,
          local, ret, committed>>

NoCall == [op |-> "none", arg |-> 0, stage |-> 0]
NoTxn == [kind |-> "none"]
NoCursor == "none"
NoLocal == [prev |-> <<>>, value |-> <<>>]
NoRet == [tag |-> "none"]
Panic == [tag |-> "Panic"]
ReadOnlyErr == [tag |-> "Err", err |-> "ReadOnly"]

\* ------------------------------------------------ the store found on disk
\* A store written by the reference node: block heights are contiguous from
\* 0, cumulative difficulty is the running sum of the blocks' difficulties,
\* every pool transaction has its metadata and its blob.
RECURSIVE Cum(_, _)
Cum(incs, n) == IF n = 0 THEN 0 ELSE Cum(incs, n - 1) + incs[n]

\* the difficulties of the blocks of a chain, each 1 or 2
Chains == UNION {[1..n -> {1, 2}] : n \in 0..MaxChain}

StoreOf(incs, keys, pool, alts, extra) ==
    [t \in Tables |->
        CASE t = "block_info" ->
                {<<ZERO_KEY, serialize("BlockInfo",
                     [height |-> i - 1, diff |-> Cum(incs, i)])>> :
                   i \in DOMAIN incs}
          [] t = "block_heights" ->
                {<<ZERO_KEY, serialize("BlockHeight",
                     [hash |-> i, height |-> i - 1])>> : i \in DOMAIN incs}
          [] t = "txs_pruned" ->
                {<<(<<i>>), <<i>> >> : i \in 1..(Len(incs) + extra)}
          [] t = "spent_keys" -> {<<ZERO_KEY, <<k>> >> : k \in keys}
          [] t = "txpool_meta" ->
                {<<(<<h>>), serialize("TxPoolMeta",
                     [fee |-> 0, kept_by_block |-> FALSE])>> : h \in pool}
          [] t = "txpool_blob" ->
                {<<(<<h>>), serialize("Transaction", [prefix |-> h])>> :
                   h \in pool}
          [] t = "alt_blocks" ->
                {<<(<<h>>), serialize("AltBlock",
                     [block |-> h, height |-> 0])>> : h \in alts}
          [] OTHER -> {}]

Init ==
    /\ \E incs \in Chains, nkeys \in 0..MaxKey, npend \in 0..MaxTx,
          extra \in 0..1 :
            disk = StoreOf(incs, 1..nkeys, 1..npend, 1..npend, extra)
    /\ phase = "closed"
    /\ read_only = FALSE
    /\ sub_dbs = {}
    /\ cmp = [t \in Tables |-> NoCmp]
    /\ call = NoCall
    /\ pc = "idle"
    /\ txn = NoTxn
    /\ cursor = NoCursor
    /\ rw_count = 0
    /\ local = NoLocal
    /\ ret = NoRet
    /\ committed = {disk}

\* MoneroDB::open: the environment, the seventeen tables, the comparators.
\* Any of the three steps may fail; the handle exists only when all succeed.
Open ==
    /\ phase = "closed"
    /\ \E ro \in BOOLEAN, failure \in {"none", "env", "sub_dbs", "set_sort"} :
          IF failure = "none"
          THEN /\ phase' = "open"
               /\ read_only' = ro
               /\ sub_dbs' = open_sub_dbs
               /\ cmp' = set_sort(cmp)
          ELSE /\ phase' = "failed"
               /\ UNCHANGED <<read_only, sub_dbs, cmp>>
    /\ UNCHANGED <<disk, call, pc, txn, cursor, rw_count,
                   local, ret, committed>>


\* ------------------------------------------------------ the storage engine
\* lmdb::Error::to_err_code
to_err_code(e) ==
    CASE e = "NotFound" -> MDB_NOTFOUND
      [] e = "KeyExist" -> -30799
      [] e = "Corrupted" -> -30796
      [] e = "MapFull" -> -30792
      [] e = "ReadersFull" -> -30790
      [] e = "BadTxn" -> -30782

\* bytes a comparator reads from each of its two operands
cmp_width(f) ==
    CASE f = "hash32" -> HASH_LEN
      [] f = "uint64" -> 8
      [] OTHER -> 0

\* Cursor::get(Some(key), Some(data), op) on the transaction's view: the
\* outcomes the engine can produce.  MDB_SET finds the entry of the key;
\* MDB_GET_BOTH finds, among the values of the key, the one the table's
\* duplicate comparator finds equal to data.  A comparator that reads more
\* bytes than data holds reads past the end of the slice: any outcome.
cursor_get(view, c, item) ==
    LET under == {e \in view[item.db] : e[1] = item.key}
        f == c[item.db].dup
        same == IF f = "default"
                THEN {e \in under : e[2] = item.data}
                ELSE {e \in under : e[2][1] = item.data[1]}
    IN  CASE item.op = MDB_SET ->
                IF under = {} THEN {DbErr("NotFound")}
                ELSE {Ok(e[2]) : e \in under}
          [] item.op = MDB_GET_BOTH ->
                IF item.len < cmp_width(f)
                THEN {Ok(e[2]) : e \in under} \cup {DbErr("NotFound")}
                ELSE IF same = {} THEN {DbErr("NotFound")}
                ELSE {Ok(e[2]) : e \in same}
          [] item.op = MDB_FIRST ->
                IF view[item.db] = {} THEN {DbErr("NotFound")}
                ELSE {Ok(e[2]) : e \in view[item.db]}

\* RwCursor::put(key, data, flags) on a table without duplicates: the value
\* of the key is replaced in the transaction's view
cursor_put(view, put) ==
    [view EXCEPT ![put.db] =
        {e \in @ : e[1] # put.key} \cup {<<put.key, put.data>>}]

\* Transaction::stat(db).entries()
stat_entries(view, db) == Cardinality(view[db])

\* the Drop of a transaction that was not committed (mdb_txn_abort): the
\* committed contents stay as they were, what the transaction wrote is gone
txn_abort(d, t) == d

\* fault: the transaction outlives the function that began it
scope_exit_leak(d, t, c) == [disk |-> d, txn |-> t, cursor |-> NoCursor]

\* the end of get_raw_item, put_item, get_blockchain_height, on every path
\* out: the locals curser and transaction are dropped, neither was committed
scope_exit(d, t, c) ==
    [disk |-> txn_abort(d, t), txn |-> NoTxn, cursor |-> NoCursor]

\* ------------------------------------------------------- the accessor layer
\* fault: the writers do not see that the store is read-only
is_readonly_never(ro) == FALSE

\* MoneroDB::is_readonly
is_readonly(ro) == ro

Counters == {"get_blockchain_height", "get_tx_count"}
Writers == {"add_alt_block", "add_txpool_tx"}

\* a byte slice given by the caller: its length and its leading 32 bytes
SpentKeys == [len : {HASH_LEN - 1, HASH_LEN, HASH_LEN + 1}, img : 1..MaxKey]

Heights == 0..MaxChain

ArgsOf(op) ==
    CASE op \in {"get_alt_block", "get_txpool_tx", "get_txpool_meta"} -> 1..MaxTx
      [] op \in {"get_block_info", "get_block_difficulty"} -> Heights
      [] op = "get_block_height" -> 1..MaxChain
      [] op = "is_key_image_spent" -> SpentKeys
      [] op \in Counters -> {0}
      [] op = "add_alt_block" -> AltBlocks
      [] op = "add_txpool_tx" -> [tx : Transactions, tx_meta : TxPoolMetas]

\* block_height - 1 on u64: a build with overflow checks panics on 0 - 1, a
\* build without them wraps
pred_u64(h, checks) ==
    IF h >= 1 THEN Ok(h - 1) ELSE IF checks THEN Panic ELSE Ok(U64_MAX)

\* fault: the operands of the subtraction the other way round
sub_u128_swapped(a, b, checks) ==
    IF b >= a THEN Ok(b - a) ELSE IF checks THEN Panic ELSE Ok(b - a)

\* block.cumulative_difficulty() - prev_block.cumulative_difficulty() on
\* u128; a negative n stands for the wrapped 2^128 + n
sub_u128(a, b, checks) ==
    IF a >= b THEN Ok(a - b) ELSE IF checks THEN Panic ELSE Ok(a - b)

\* the arguments each accessor passes to get_item, and the type it decodes
item_of(c) ==
    CASE c.op = "get_alt_block" ->
            [db |-> "alt_blocks", key |-> <<c.arg>>, data |-> <<0>>, len |-> 1,
             op |-> MDB_SET, kind |-> "AltBlock"]
      [] c.op = "get_block_info" ->
            [db |-> "block_info", key |-> ZERO_KEY, data |-> <<c.arg>>,
             len |-> 8, op |-> MDB_GET_BOTH, kind |-> "BlockInfo"]
      [] c.op = "get_block_difficulty" ->
            [db |-> "block_info", key |-> ZERO_KEY,
             data |-> IF c.stage = 1 THEN <<pred_u64(c.arg, FALSE).val>>
                      ELSE <<c.arg>>,
             len |-> 8, op |-> MDB_GET_BOTH, kind |-> "BlockInfo"]
      [] c.op = "get_block_height" ->
            [db |-> "block_heights", key |-> ZERO_KEY, data |-> <<c.arg>>,
             len |-> HASH_LEN, op |-> MDB_GET_BOTH, kind |-> "BlockHeight"]
      [] c.op = "is_key_image_spent" ->
            [db |-> "spent_keys", key |-> ZERO_KEY, data |-> <<c.arg.img>>,
             len |-> c.arg.len, op |-> MDB_GET_BOTH, kind |-> "PublicKey"]
      [] c.op = "get_txpool_tx" ->
            [db |-> "txpool_blob", key |-> <<c.arg>>, data |-> <<0>>,
             len |-> 1, op |-> MDB_SET, kind |-> "Transaction"]
      [] c.op = "get_txpool_meta" ->
            [db |-> "txpool_meta", key |-> <<c.arg>>, data |-> <<0>>,
             len |-> 1, op |-> MDB_SET, kind |-> "TxPoolMeta"]

\* fault: the two counters take the statistics of each other's table
stat_db_swapped(op) ==
    IF op = "get_blockchain_height" THEN "txs_pruned" ELSE "block_heights"

\* the table get_blockchain_height / get_tx_count take the statistics of
stat_db(op) ==
    IF op = "get_blockchain_height" THEN "block_heights" ELSE "txs_pruned"

\* the puts of a writer, in the order it issues them
puts_of(c) ==
    CASE c.op = "add_alt_block" ->
            <<[db |-> "alt_blocks", key |-> <<id(c.arg)>>,
               data |-> serialize("AltBlock", c.arg)]>>
      [] c.op = "add_txpool_tx" ->
            <<[db |-> "txpool_meta", key |-> <<hash(c.arg.tx)>>,
               data |-> serialize("TxPoolMeta", c.arg.tx_meta)],
              [db |-> "txpool_blob", key |-> <<hash(c.arg.tx)>>,
               data |-> serialize("Transaction", c.arg.tx)]>>

\* fault: a value that does not decode is reported as an error
spent_of_strict(data) ==
    IF data.tag = "Err"
    THEN IF data.err = "DatabaseError" /\ to_err_code(data.code) = MDB_NOTFOUND
         THEN Ok(FALSE) ELSE data
    ELSE Ok(TRUE)

\* is_key_image_spent: what it makes of get_item's result
spent_of(data) ==
    IF data.tag = "Err" /\ data.err = "DatabaseError"
    THEN IF to_err_code(data.code) = MDB_NOTFOUND THEN Ok(FALSE) ELSE data
    ELSE Ok(TRUE)


\* ------------------------------------------------------------------ steps
\* a call enters: the previous result is gone, nothing is held yet
Enter(op, arg, next) ==
    /\ phase = "open"
    /\ pc = "idle"
    /\ call' = [op |-> op, arg |-> arg, stage |-> 1]
    /\ pc' = next
    /\ ret' = NoRet
    /\ rw_count' = 0
    /\ local' = NoLocal
    /\ committed' = {disk}
    /\ UNCHANGED <<disk, phase, read_only, sub_dbs, cmp, txn,
                   cursor>>

\* a call returns r without having entered get_item or put_item
Refuse(op, arg, r) ==
    /\ phase = "open"
    /\ pc = "idle"
    /\ call' = [op |-> op, arg |-> arg, stage |-> 1]
    /\ ret' = r
    /\ rw_count' = 0
    /\ local' = NoLocal
    /\ committed' = {disk}
    /\ UNCHANGED <<disk, phase, read_only, sub_dbs, cmp, pc,
                   txn, cursor>>

get_alt_block == \E h \in ArgsOf("get_alt_block") : Enter("get_alt_block", h, "begin_ro")

get_block_info == \E h \in ArgsOf("get_block_info") : Enter("get_block_info", h, "begin_ro")

get_block_height == \E h \in ArgsOf("get_block_height") : Enter("get_block_height", h, "begin_ro")

get_txpool_tx == \E h \in ArgsOf("get_txpool_tx") : Enter("get_txpool_tx", h, "begin_ro")

get_txpool_meta == \E h \in ArgsOf("get_txpool_meta") : Enter("get_txpool_meta", h, "begin_ro")

is_key_image_spent ==
    \E k \in ArgsOf("is_key_image_spent") : Enter("is_key_image_spent", k, "begin_ro")

\* the predecessor height is computed before the first lookup
get_block_difficulty ==
    \E h \in ArgsOf("get_block_difficulty") :
        \E checks \in BOOLEAN :
            IF pred_u64(h, checks) = Panic
            THEN Refuse("get_block_difficulty", h, Panic)
            ELSE Enter("get_block_difficulty", h, "begin_ro")

get_blockchain_height == Enter("get_blockchain_height", 0, "begin_ro")

get_tx_count == Enter("get_tx_count", 0, "begin_ro")

add_alt_block ==
    \E b \in ArgsOf("add_alt_block") :
        IF is_readonly(read_only) THEN Refuse("add_alt_block", b, ReadOnlyErr)
        ELSE Enter("add_alt_block", b, "begin_rw")

add_txpool_tx ==
    \E a \in ArgsOf("add_txpool_tx") :
        IF is_readonly(read_only) THEN Refuse("add_txpool_tx", a, ReadOnlyErr)
        ELSE Enter("add_txpool_tx", a, "begin_rw")

\* the locals of the function in progress go out of scope
Exit ==
    LET x == scope_exit(disk, txn, cursor)
    IN  /\ disk' = x.disk
        /\ txn' = x.txn
        /\ cursor' = x.cursor

\* get_item hands r to the accessor that called it
Deliver(r) ==
    IF call.op = "get_block_difficulty" /\ r.tag = "Ok"
    THEN IF call.stage = 1
         THEN /\ local' = [prev |-> r.val, value |-> <<>>]
              /\ call' = [call EXCEPT !.stage = 2]
              /\ pc' = "begin_ro"
              /\ UNCHANGED ret
         ELSE /\ \E checks \in BOOLEAN :
                    ret' = sub_u128(cumulative_difficulty(r.val),
                                    cumulative_difficulty(local.prev), checks)
              /\ pc' = "idle"
              /\ local' = NoLocal
              /\ UNCHANGED call
    ELSE /\ ret' = IF call.op = "is_key_image_spent" THEN spent_of(r) ELSE r
         /\ pc' = "idle"
         /\ local' = NoLocal
         /\ UNCHANGED call

\* env.begin_ro_txn()?
BeginRoTxn ==
    /\ pc = "begin_ro"
    /\ \E ok \in BOOLEAN :
          IF ok
          THEN /\ txn' = [kind |-> "ro", view |-> disk]
               /\ pc' = IF call.op \in Counters THEN "stat"
                        ELSE "open_ro_cursor"
               /\ UNCHANGED <<ret, call, local, disk, cursor>>
          ELSE /\ Exit
               /\ IF call.op \in Counters
                  THEN /\ ret' = DbErr("ReadersFull")
                       /\ pc' = "idle"
                       /\ local' = NoLocal
                       /\ UNCHANGED call
                  ELSE Deliver(DbErr("ReadersFull"))
    /\ UNCHANGED <<phase, read_only, sub_dbs, cmp, rw_count>>
    /\ committed' = committed \cup {disk'}

\* transaction.open_ro_cursor(db)?
OpenRoCursor ==
    /\ pc = "open_ro_cursor"
    /\ \E ok \in BOOLEAN :
          IF ok
          THEN /\ cursor' = item_of(call).db
               /\ pc' = "cursor_get"
               /\ UNCHANGED <<ret, call, local, disk, txn>>
          ELSE /\ Exit
               /\ Deliver(DbErr("BadTxn"))
    /\ UNCHANGED <<phase, read_only, sub_dbs, cmp, rw_count>>
    /\ committed' = committed \cup {disk'}

\* curser.get(Some(key), Some(data), op)?  and the return of get_raw_item
CursorGet ==
    /\ pc = "cursor_get"
    /\ \E r \in cursor_get(txn.view, cmp, item_of(call))
                  \cup {DbErr("Corrupted")} :
          /\ Exit
          /\ IF r.tag = "Ok"
             THEN /\ local' = [local EXCEPT !.value = r.val]
                  /\ pc' = "deserialize"
                  /\ UNCHANGED <<ret, call>>
             ELSE Deliver(r)
    /\ UNCHANGED <<phase, read_only, sub_dbs, cmp, rw_count>>
    /\ committed' = committed \cup {disk'}

\* Ok(deserialize(&value)?)
Deserialize ==
    /\ pc = "deserialize"
    /\ Deliver(deserialize(item_of(call).kind, local.value))
    /\ UNCHANGED <<disk, phase, read_only, sub_dbs, cmp, txn,
                   cursor, rw_count>>
    /\ committed' = committed \cup {disk'}

\* transaction.stat(db)?  and Ok(stats.entries() as u64)
Stat ==
    /\ pc = "stat"
    /\ \E ok \in BOOLEAN :
          ret' = IF ok THEN Ok(stat_entries(txn.view, stat_db(call.op)))
                 ELSE DbErr("Corrupted")
    /\ Exit
    /\ pc' = "idle"
    /\ UNCHANGED <<phase, read_only, sub_dbs, cmp, rw_count,
                   call, local>>
    /\ committed' = committed \cup {disk'}

\* put_item fails with e, or is done: the writer goes on to its next put
PutReturns(r) ==
    IF r.tag = "Ok" /\ call.stage < Len(puts_of(call))
    THEN /\ call' = [call EXCEPT !.stage = @ + 1]
         /\ pc' = "begin_rw"
         /\ UNCHANGED ret
    ELSE /\ ret' = r
         /\ pc' = "idle"
         /\ UNCHANGED call

\* env.begin_rw_txn()?
BeginRwTxn ==
    /\ pc = "begin_rw"
    /\ \E ok \in BOOLEAN :
          IF ok
          THEN /\ txn' = [kind |-> "rw", view |-> disk]
               /\ rw_count' = rw_count + 1
               /\ pc' = "open_rw_cursor"
               /\ UNCHANGED <<ret, call, disk, cursor>>
          ELSE /\ Exit
               /\ PutReturns(DbErr("BadTxn"))
               /\ UNCHANGED rw_count
    /\ UNCHANGED <<phase, read_only, sub_dbs, cmp, local>>
    /\ committed' = committed \cup {disk'}

\* transaction.open_rw_cursor(db)?
OpenRwCursor ==
    /\ pc = "open_rw_cursor"
    /\ \E ok \in BOOLEAN :
          IF ok
          THEN /\ cursor' = puts_of(call)[call.stage].db
               /\ pc' = "cursor_put"
               /\ UNCHANGED <<ret, call, disk, txn>>
          ELSE /\ Exit
               /\ PutReturns(DbErr("BadTxn"))
    /\ UNCHANGED <<phase, read_only, sub_dbs, cmp, rw_count,
                   local>>
    /\ committed' = committed \cup {disk'}

\* Ok(curser.put(key, data, flags)?)  and the return of put_item
CursorPut ==
    /\ pc = "cursor_put"
    /\ \E ok \in BOOLEAN :
          LET t == IF ok
                   THEN [txn EXCEPT !.view =
                            cursor_put(@, puts_of(call)[call.stage])]
                   ELSE txn
              x == scope_exit(disk, t, cursor)
          IN  /\ disk' = x.disk
              /\ txn' = x.txn
              /\ cursor' = x.cursor
              /\ PutReturns(IF ok THEN Ok(<<>>) ELSE DbErr("MapFull"))
    /\ UNCHANGED <<phase, read_only, sub_dbs, cmp, rw_count,
                   local>>
    /\ committed' = committed \cup {disk'}

Next ==
    \/ Open
    \/ get_alt_block
    \/ get_block_info
    \/ get_block_difficulty
    \/ get_block_height
    \/ get_blockchain_height
    \/ get_tx_count
    \/ is_key_image_spent
    \/ get_txpool_tx
    \/ get_txpool_meta
    \/ add_alt_block
    \/ add_txpool_tx
    \/ BeginRoTxn
    \/ OpenRoCursor
    \/ CursorGet
    \/ Deserialize
    \/ Stat
    \/ BeginRwTxn
    \/ OpenRwCursor
    \/ CursorPut

Spec == Init /\ [][Next]_vars


\* ================================================================= claims
Returned == phase = "open" /\ pc = "idle" /\ ret # NoRet

ValueErr == [tag |-> "Err", err |-> "ValueError"]

\* ret is a storage failure other than not-found
OtherStorageFailure ==
    /\ ret.tag = "Err"
    /\ ret.err = "DatabaseError"
    /\ to_err_code(ret.code) # MDB_NOTFOUND

\* what a getter returns on the committed store when the engine does not fail
Reads(op, arg) ==
    LET it == item_of([op |-> op, arg |-> arg, stage |-> 1])
    IN  {IF r.tag = "Ok" THEN deserialize(it.kind, r.val) ELSE r :
           r \in cursor_get(disk, cmp, it)}

\* C1: once add_alt_block(b) has returned Ok, get_alt_block(id(b)) returns b;
\* once add_txpool_tx(tx, meta) has returned Ok, get_txpool_tx(hash(tx))
\* returns tx and get_txpool_meta(hash(tx)) returns meta.
C1_WrittenIsReadBack ==
    /\ (Returned /\ call.op = "add_alt_block" /\ ret.tag = "Ok")
          => Reads("get_alt_block", id(call.arg)) = {Ok(call.arg)}
    /\ (Returned /\ call.op = "add_txpool_tx" /\ ret.tag = "Ok")
          => /\ Reads("get_txpool_tx", hash(call.arg.tx)) = {Ok(call.arg.tx)}
             /\ Reads("get_txpool_meta", hash(call.arg.tx))
                   = {Ok(call.arg.tx_meta)}

\* C2: add_txpool_tx puts the metadata and the blob inside one write
\* transaction, and in every committed state txpool_meta holds an entry for
\* a hash exactly when txpool_blob holds one.
C2_PoolWrittenAsOneUnit ==
    /\ call.op = "add_txpool_tx" => rw_count <= 1
    /\ {e[1] : e \in disk["txpool_meta"]} = {e[1] : e \in disk["txpool_blob"]}

\* C3: on a store opened read-only a writer returns the read-only error,
\* begins no write transaction, and no table's contents change.
C3_ReadOnlyRejectsWrites ==
    /\ [](phase = "open" /\ read_only /\ call.op \in Writers
            => /\ pc = "idle"
               /\ ret = ReadOnlyErr
               /\ rw_count = 0
               /\ txn = NoTxn)
    /\ [][read_only /\ call'.op \in Writers => disk' = disk]_vars

C3_Witness ==
    /\ phase = "open"
    /\ read_only
    /\ call.op = "add_txpool_tx"
    /\ ret = ReadOnlyErr

\* C4: for a 32-byte key image k, is_key_image_spent(k) returns Ok(true)
\* when spent_keys holds k under the zero key, whether or not the value
\* decodes, Ok(false) when it does not hold k, and otherwise the storage
\* failure as an error.
C4_SpentIffPresent ==
    (Returned /\ call.op = "is_key_image_spent" /\ call.arg.len = HASH_LEN)
        => \/ ret = Ok(<<ZERO_KEY, <<call.arg.img>> >> \in disk["spent_keys"])
           \/ OtherStorageFailure

C4_Witness ==
    /\ Returned
    /\ call.op = "is_key_image_spent"
    /\ call.arg.len = HASH_LEN
    /\ ~IsPoint(call.arg.img)
    /\ ret = Ok(TRUE)

\* C5: is_key_image_spent with an input that is not 32 bytes long returns a
\* ValueError at once: it never enters get_item and opens neither a read
\* transaction nor a cursor.
C5_LengthCheckedFirst ==
    (call.op = "is_key_image_spent" /\ call.arg.len # HASH_LEN)
        => /\ pc = "idle"
           /\ txn = NoTxn
           /\ cursor = NoCursor
           /\ ret = ValueErr

\* the cumulative difficulty block_info holds for height h
CumAt(h) ==
    LET e == CHOOSE x \in disk["block_info"] : x[2][1] = h
    IN  deserialize("BlockInfo", e[2]).val.diff

HasInfo(h) == \E x \in disk["block_info"] : x[2][1] = h

\* C6: for h >= 1 with block_info records at h and h - 1,
\* get_block_difficulty(h) returns the cumulative difficulty at h minus the
\* one at h - 1, unless the engine fails.
C6_DifficultyIsDifference ==
    (Returned /\ call.op = "get_block_difficulty" /\ call.arg >= 1
       /\ HasInfo(call.arg) /\ HasInfo(call.arg - 1))
        => \/ ret = Ok(CumAt(call.arg) - CumAt(call.arg - 1))
           \/ OtherStorageFailure

C6_Witness ==
    /\ Returned
    /\ call.op = "get_block_difficulty"
    /\ call.arg = 1
    /\ ret.tag = "Ok"
    /\ ret.val = 2

\* C7: get_block_difficulty(0) returns a storage error, never looks up a
\* wrapped predecessor height and never panics.
C7_HeightZeroIsNotFound ==
    (call.op = "get_block_difficulty" /\ call.arg = 0)
        => /\ ret # Panic
           /\ pc # "idle" => item_of(call).data # <<U64_MAX>>
           /\ Returned => ret.tag = "Err" /\ ret.err = "DatabaseError"

\* C8: get_blockchain_height returns the number of block hashes committed
\* in block_heights, unless the engine fails.
C8_HeightIsEntryCount ==
    (Returned /\ call.op = "get_blockchain_height")
        => \/ ret = Ok(Cardinality({e[2][1] : e \in disk["block_heights"]}))
           \/ OtherStorageFailure

C8_Witness ==
    /\ Returned
    /\ call.op = "get_blockchain_height"
    /\ ret = Ok(2)

Hash32Tables == {"spent_keys", "block_heights", "tx_indices", "txpool_meta",
                 "txpool_blob", "alt_blocks"}
Uint64DupTables == {"block_info", "txs_prunable_hash", "txs_prunable_tip",
                    "output_txs", "output_amounts"}

Installed(t, f) == cmp[t].key = f \/ cmp[t].dup = f

\* C9 as stated: once open has returned Ok the seventeen tables are open,
\* the hash tables order by hash32, the six multi-value integer tables,
\* tx_outputs among them, by uint64, and properties by string.
C9_AllComparatorsInstalled ==
    phase = "open"
        => /\ Cardinality(sub_dbs) = 17
           /\ \A t \in Hash32Tables : Installed(t, "hash32")
           /\ \A t \in Uint64DupTables \cup {"tx_outputs"} :
                 Installed(t, "uint64")
           /\ Installed("properties", "string")

\* C9 as amended: the same, but tx_outputs is left with the engine's own
\* ordering; and no accessor runs before open has returned Ok.
C9_ComparatorsExceptTxOutputs ==
    /\ phase = "open"
        => /\ Cardinality(sub_dbs) = 17
           /\ \A t \in Hash32Tables : Installed(t, "hash32")
           /\ \A t \in Uint64DupTables : Installed(t, "uint64")
           /\ Installed("properties", "string")
           /\ cmp["tx_outputs"] = NoCmp
    /\ call.op # "none" => phase = "open"

C9_Witness ==
    /\ phase = "open"
    /\ call.op = "get_alt_block"
    /\ ret.tag = "Ok"

\* C10: a call that has returned holds no transaction and no cursor, and
\* none is held between the lookups or the puts of one call.
C10_NothingHeldAfterReturn ==
    pc \in {"idle", "begin_ro", "begin_rw", "deserialize"}
        => txn = NoTxn /\ cursor = NoCursor

C10_Witness ==
    /\ Returned
    /\ call.op = "get_block_height"
    /\ ret.tag = "Err"
    /\ ret.err = "DatabaseError"
    /\ ret.code = "Corrupted"


\* ============================================ a writer beside the reader
\* The reference node has the same environment open and keeps the chain: it
\* appends a block or pops the top block (a reorganisation pops blocks and
\* appends those of the other branch), one committed write transaction each.
\* The genesis block is never popped.
ChainHeight == Cardinality(disk["block_info"])

node_add_block ==
    /\ ChainHeight <= MaxChain
    /\ phase = "open" => ~read_only
    /\ pc # "idle" => Cardinality(committed) <= MaxCommits
    /\ \E d \in {1, 2} :
          LET n == ChainHeight
              top == IF n = 0 THEN 0 ELSE CumAt(n - 1)
          IN  disk' = [disk EXCEPT
                  !["block_info"] = @ \cup
                      {<<ZERO_KEY, serialize("BlockInfo",
                           [height |-> n, diff |-> top + d])>>},
                  !["block_heights"] = @ \cup
                      {<<ZERO_KEY, serialize("BlockHeight",
                           [hash |-> n + 1, height |-> n])>>},
                  !["txs_pruned"] = @ \cup {<<(<<n + 1>>), <<n + 1>> >>}]
    /\ committed' = IF pc = "idle" THEN committed ELSE committed \cup {disk'}
    /\ UNCHANGED <<phase, read_only, sub_dbs, cmp, call, pc, txn, cursor,
                   rw_count, local, ret>>

node_pop_block ==
    /\ ChainHeight > 1
    /\ phase = "open" => ~read_only
    /\ pc # "idle" => Cardinality(committed) <= MaxCommits
    /\ LET n == ChainHeight
       IN  disk' = [disk EXCEPT
               !["block_info"] = {e \in @ : e[2][1] # n - 1},
               !["block_heights"] = {e \in @ : e[2][2] # n - 1},
               !["txs_pruned"] = {e \in @ : e[1] # <<n>>}]
    /\ committed' = IF pc = "idle" THEN committed ELSE committed \cup {disk'}
    /\ UNCHANGED <<phase, read_only, sub_dbs, cmp, call, pc, txn, cursor,
                   rw_count, local, ret>>

\* the store holds a chain of up to MaxChain + 1 blocks and nothing else
InitWriter ==
    /\ \E incs \in UNION {[1..n -> {1, 2}] : n \in 0..(MaxChain + 1)} :
          disk = StoreOf(incs, {}, {}, {}, 0)
    /\ phase = "closed"
    /\ read_only = FALSE
    /\ sub_dbs = {}
    /\ cmp = [t \in Tables |-> NoCmp]
    /\ call = NoCall
    /\ pc = "idle"
    /\ txn = NoTxn
    /\ cursor = NoCursor
    /\ rw_count = 0
    /\ local = NoLocal
    /\ ret = NoRet
    /\ committed = {disk}

NextWriter ==
    \/ Open
    \/ get_block_difficulty
    \/ BeginRoTxn
    \/ OpenRoCursor
    \/ CursorGet
    \/ Deserialize
    \/ node_add_block
    \/ node_pop_block

SpecWriter == InitWriter /\ [][NextWriter]_vars

\* the difficulty of the block at height h in the committed contents d
DifficultyIn(d, h) ==
    LET at(k) == {deserialize("BlockInfo", e[2]).val.diff :
                    e \in {x \in d["block_info"] : x[2][1] = k}}
    IN  {a - b : a \in at(h), b \in at(h - 1)}

\* C11: the value get_block_difficulty(h) returns is the cumulative
\* difficulty at h minus the one at h - 1 as both stood in one committed
\* state the store had during the call, whatever a writer committed between
\* the two lookups.
C11_DifficultyFromOneSnapshot ==
    (Returned /\ call.op = "get_block_difficulty" /\ ret.tag = "Ok")
        => \E d \in committed : ret.val \in DifficultyIn(d, call.arg)

====
